---- MODULE Spec2Model ----
(***************************************************************************)
(* A model of database-common-lib: the write-once process-wide database    *)
(* name and the pool factory (src/src/database_connection.rs), the Error   *)
(* enum and its HTTP rendering (src/src/http_error.rs), and the server     *)
(* built by create_http_server (src/src/actix_extension.rs).               *)
(*                                                                         *)
(* Five specifications share the module: SpecDb (threads calling the       *)
(* database-name functions and create_pool), SpecErr (status_code and      *)
(* error_response applied to Error values), SpecHttp (requests served by   *)
(* the configured actix App), SpecCfg (DatabaseConnectionData::get) and    *)
(* SpecFrom (the From conversions of Error).                               *)
(***************************************************************************)
EXTENDS Integers, Sequences, FiniteSets, TLC

VARIABLES
    DATABASE_NAME,   \* OnceLock<Mutex<String>>: <<>> while uninitialised, <<s>> once set
    mutex,           \* holder of the Mutex inside DATABASE_NAME: 0 when free, else a thread
    pc,              \* pc[t]: where thread t is inside a library call
    setArg,          \* setArg[t]: the db argument of t's running set_database_name
    poolData,        \* poolData[t]: the data argument of t's running create_pool
    poolUrl,         \* poolUrl[t]: the connection string t's create_pool is connecting to
    returned,        \* the calls that have returned, in the order they took effect
    attempts,        \* the MySqlPool::connect calls issued so far, in order
    debug_assertions, \* cfg!(debug_assertions): TRUE in a development build
    err,             \* the Error value status_code / error_response is called on
    captured,        \* what Backtrace::capture() renders to in this process (lines)
    statusOut,       \* <<>> or <<the StatusCode returned by status_code(&err)>>
    respOut,         \* <<>> or <<the HttpResponse returned by error_response(&err)>>
    wwwroot,         \* the embedded Dir given to create_http_server: file path -> contents
    routes,          \* the routes the factory given to create_http_server registers
    request,         \* <<>> or <<the request the server is working on>>
    exchange,        \* <<>> or <<the last request served, with what became of it>>
    cwd,             \* the current working directory of the process
    manifest_env,    \* the CARGO_MANIFEST_DIR variable: <<>> when unset, else <<directory>>
    files,           \* files[d]: <<>> or <<the contents of d/dev-server.json>>
    getLog,          \* what the calls of DatabaseConnectionData::get returned, in order
    source,          \* the value handed to Error::from
    converted        \* whether err is the Error that Error::from(source) returned

dbVars == <<DATABASE_NAME, mutex, pc, setArg, poolData, poolUrl, returned, attempts>>

errVars == <<err, captured, statusOut, respOut>>

httpVars == <<wwwroot, routes, request, exchange>>

cfgVars == <<cwd, manifest_env, files, getLog>>

fromVars == <<source, converted>>

vars == <<dbVars, debug_assertions, errVars, httpVars, cfgVars, fromVars>>

notDb == <<debug_assertions, errVars, httpVars, cfgVars, fromVars>>

notErr == <<dbVars, httpVars, cfgVars, fromVars>>

notHttp == <<dbVars, errVars, cfgVars, fromVars>>

notCfg == <<dbVars, errVars, httpVars, fromVars>>

(***************************************************************************)
(* Bounds of the model.                                                    *)
(***************************************************************************)
NumThreads == 2
MaxCalls == 3
MaxGets == 3

Threads == 1..NumThreads

(***************************************************************************)
(* Result<T, anyhow::Error>.                                               *)
(***************************************************************************)
Ok(v) == [ok |-> TRUE, val |-> v]
Err(msg) == [ok |-> FALSE, val |-> msg]

(***************************************************************************)
(* Inputs: database names and connection configurations.                   *)
(***************************************************************************)
Names == {"stores", "inventory"}

DefaultData ==
    [host |-> "", user |-> "", password |-> "",
     filemaker |-> [username |-> "", password |-> ""], hash |-> ""]

Configs ==
    { [host |-> "db.local", user |-> "root", password |-> "pw",
       filemaker |-> [username |-> "fm", password |-> "fmpw"], hash |-> "h1"],
      DefaultData }

(***************************************************************************)
(* set_database_name: OnceLock::set stores the value only into an          *)
(* uninitialised cell and otherwise hands the value back, which map_err    *)
(* turns into the error.  The pair is the cell afterwards and the Result.  *)
(***************************************************************************)
set_database_name_overwrite(cell, db) == [cell |-> <<db>>, res |-> Ok("")]

set_database_name(cell, db) ==
    IF cell = <<>>
    THEN [cell |-> <<db>>, res |-> Ok("")]
    ELSE [cell |-> cell, res |-> Err("Failed to set database name")]

(***************************************************************************)
(* get_database_name: OnceLock::get, then the guarded String is copied.    *)
(* The Mutex is never held across a panic, so lock() cannot be poisoned.   *)
(***************************************************************************)
get_database_name_default(cell) ==
    IF cell = <<>> THEN Ok("") ELSE Ok(cell[1])

get_database_name(cell) ==
    IF cell = <<>> THEN Err("Database name not set") ELSE Ok(cell[1])

(***************************************************************************)
(* The format! call of create_pool.                                        *)
(***************************************************************************)
connection_string_swapped(data, db) ==
    "mysql://" \o data.password \o ":" \o data.user \o "@" \o data.host \o "/" \o db

connection_string(data, db) ==
    "mysql://" \o data.user \o ":" \o data.password \o "@" \o data.host \o "/" \o db

(***************************************************************************)
(* The log of returned calls.                                              *)
(***************************************************************************)
Entry(t, op, db, data, res, n) ==
    [thread |-> t, op |-> op, db |-> db, data |-> data,
     ok |-> res.ok, val |-> res.val, nattempts |-> n]

Busy == {t \in Threads : pc[t] # "idle"}

CanCall(t) == pc[t] = "idle" /\ Len(returned) + Cardinality(Busy) < MaxCalls

DbStart ==
    /\ DATABASE_NAME = <<>>
    /\ mutex = 0
    /\ pc = [t \in Threads |-> "idle"]
    /\ setArg = [t \in Threads |-> ""]
    /\ poolData = [t \in Threads |-> DefaultData]
    /\ poolUrl = [t \in Threads |-> ""]
    /\ returned = <<>>
    /\ attempts = <<>>

\* A thread enters set_database_name(db): the argument is copied into a String.
SetInvoke(t, db) ==
    /\ CanCall(t)
    /\ pc' = [pc EXCEPT ![t] = "set"]
    /\ setArg' = [setArg EXCEPT ![t] = db]
    /\ UNCHANGED <<DATABASE_NAME, mutex, poolData, poolUrl, returned, attempts>>
    /\ UNCHANGED notDb

\* OnceLock::set takes effect atomically and the call returns its Result.
SetApply(t) ==
    /\ pc[t] = "set"
    /\ LET r == set_database_name(DATABASE_NAME, setArg[t]) IN
        /\ DATABASE_NAME' = r.cell
        /\ returned' = Append(returned, Entry(t, "set", setArg[t], DefaultData, r.res, 0))
    /\ pc' = [pc EXCEPT ![t] = "idle"]
    /\ setArg' = [setArg EXCEPT ![t] = ""]
    /\ UNCHANGED <<mutex, poolData, poolUrl, attempts>>
    /\ UNCHANGED notDb

\* get_database_name up to lock(): an unset cell returns the error at once.
GetBegin(t) ==
    /\ CanCall(t)
    /\ IF DATABASE_NAME = <<>>
       THEN /\ returned' = Append(returned,
                   Entry(t, "get", "", DefaultData, get_database_name(DATABASE_NAME), 0))
            /\ UNCHANGED <<mutex, pc>>
       ELSE /\ mutex = 0
            /\ mutex' = t
            /\ pc' = [pc EXCEPT ![t] = "get_locked"]
            /\ UNCHANGED returned
    /\ UNCHANGED <<DATABASE_NAME, setArg, poolData, poolUrl, attempts>>
    /\ UNCHANGED notDb

\* guard.to_string(), the guard is dropped, Ok(name) is returned.
GetFinish(t) ==
    /\ pc[t] = "get_locked"
    /\ mutex = t
    /\ returned' = Append(returned,
           Entry(t, "get", "", DefaultData, get_database_name(DATABASE_NAME), 0))
    /\ mutex' = 0
    /\ pc' = [pc EXCEPT ![t] = "idle"]
    /\ UNCHANGED <<DATABASE_NAME, setArg, poolData, poolUrl, attempts>>
    /\ UNCHANGED notDb

\* create_pool up to the lock() inside its get_database_name()? call.
CreatePoolBegin(t, data) ==
    /\ CanCall(t)
    /\ IF DATABASE_NAME = <<>>
       THEN /\ returned' = Append(returned,
                   Entry(t, "create_pool", "", data, get_database_name(DATABASE_NAME), 0))
            /\ UNCHANGED <<mutex, pc, poolData>>
       ELSE /\ mutex = 0
            /\ mutex' = t
            /\ pc' = [pc EXCEPT ![t] = "pool_locked"]
            /\ poolData' = [poolData EXCEPT ![t] = data]
            /\ UNCHANGED returned
    /\ UNCHANGED <<DATABASE_NAME, setArg, poolUrl, attempts>>
    /\ UNCHANGED notDb

\* The name is copied, the guard dropped, and MySqlPool::connect is started.
CreatePoolConnect(t) ==
    /\ pc[t] = "pool_locked"
    /\ mutex = t
    /\ LET url == connection_string(poolData[t], get_database_name(DATABASE_NAME).val) IN
        /\ poolUrl' = [poolUrl EXCEPT ![t] = url]
        /\ attempts' = Append(attempts, [thread |-> t, data |-> poolData[t], url |-> url])
    /\ mutex' = 0
    /\ pc' = [pc EXCEPT ![t] = "pool_connecting"]
    /\ UNCHANGED <<DATABASE_NAME, setArg, poolData, returned>>
    /\ UNCHANGED notDb

\* The connect future resolves: the pool, or the driver's error through `?`.
CreatePoolFinish(t, connected) ==
    /\ pc[t] = "pool_connecting"
    /\ returned' = Append(returned,
           Entry(t, "create_pool", "", poolData[t],
                 IF connected THEN Ok(poolUrl[t]) ELSE Err("connect failed"), 1))
    /\ pc' = [pc EXCEPT ![t] = "idle"]
    /\ poolData' = [poolData EXCEPT ![t] = DefaultData]
    /\ poolUrl' = [poolUrl EXCEPT ![t] = ""]
    /\ UNCHANGED <<DATABASE_NAME, mutex, setArg, attempts>>
    /\ UNCHANGED notDb

CreatePoolStep(t) ==
    \/ \E data \in Configs : CreatePoolBegin(t, data)
    \/ CreatePoolConnect(t)
    \/ \E connected \in BOOLEAN : CreatePoolFinish(t, connected)

(***************************************************************************)
(* Text.  A string is a sequence of tokens: each whitespace character is a *)
(* token of its own and every other token is a run of non-whitespace       *)
(* text, so that split, trim and strip_prefix act as they do on the str.   *)
(***************************************************************************)
Whitespace == {" ", "\n"}

Digits == {"0", "1", "2", "3", "4", "5", "6", "7", "8", "9"}

SetMin(S) == CHOOSE x \in S : \A y \in S : x <= y

SetMax(S) == CHOOSE x \in S : \A y \in S : y <= x

\* str::find: the first position at which pat occurs in s, 0 when it does not.
Find(s, pat) ==
    LET hits == {i \in 1..(Len(s) - Len(pat) + 1) : SubSeq(s, i, i + Len(pat) - 1) = pat}
    IN IF hits = {} THEN 0 ELSE SetMin(hits)

\* s.split(pat).next(): the text before the first pat, all of s without one.
SplitNext(s, pat) ==
    LET i == Find(s, pat) IN IF i = 0 THEN s ELSE SubSeq(s, 1, i - 1)

\* str::trim.
Trim(s) ==
    LET keep == {i \in 1..Len(s) : s[i] \notin Whitespace}
    IN IF keep = {} THEN <<>> ELSE SubSeq(s, SetMin(keep), SetMax(keep))

\* str::strip_prefix with a str pattern: <<rest>> for Some(rest), <<>> for None.
StripPrefix(s, pat) ==
    IF Len(s) >= Len(pat) /\ SubSeq(s, 1, Len(pat)) = pat
    THEN <<SubSeq(s, Len(pat) + 1, Len(s))>>
    ELSE <<>>

(***************************************************************************)
(* The Error enum.  An Error value is its variant, the message of the      *)
(* wrapped anyhow::Error and whether that error carries a backtrace;       *)
(* HeaderParse wraps a ToStrError, which has neither.                      *)
(***************************************************************************)
BACKTRACE_SEP == <<"\n", "\n", "Stack backtrace:">>

ANYHOW_PREFIX == <<"an", " ", "error", " ", "has", " ", "occurred:", " ">>

HEADER_PREFIX == <<"unable", " ", "to", " ", "parse", " ", "headers:", " ">>

\* The #[error] text of InternalError (a backquote is written as a quote here).
INTERNAL_TEXT ==
    <<"an", " ", "unspecified", " ", "internal", " ", "error", " ", "occurred:", " ",
      "*", " ", "'lib.rs'", " ", "sibling", " ", "file", " ", "text", " ", ":*:", "\n",
      "'''rust", "\n",
      "pub", " ", "mod", " ", "asset_endpoint;", "\n",
      "pub", " ", "mod", " ", "data_database_connection;", "\n",
      "pub", " ", "mod", " ", "http_error;", "\n",
      "\n",
      "'''">>

\* The message of the example server's error handler.
IntentionalError ==
    <<"Intentional", " ", "test", " ", "error", " ", "to", " ", "trigger", " ", "backtrace">>

Messages ==
    { <<"boom">>,
      IntentionalError,
      <<>>,
      <<" ", "not", " ", "found", "\n">>,
      <<"an", " ", "error", " ", "has", " ", "occurred:", " ", "nested">>,
      <<"panicked", "\n", "\n", "Stack backtrace:", "\n", "0:", " ", "main">> }

Errors ==
    [variant : {"InternalError", "Other", "Anyhow"}, msg : Messages, backtrace : BOOLEAN]
        \cup {[variant |-> "HeaderParse", msg |-> <<>>, backtrace |-> FALSE]}

\* Display of anyhow::Error: the message alone.
AnyhowDisplay(e) == e.msg

\* Debug of anyhow::Error: the message, then the backtrace it captured, if any.
AnyhowDebug(e) ==
    e.msg \o (IF e.backtrace
              THEN BACKTRACE_SEP \o <<"\n", " ", " ", " ", "0:", " ", "anyhow::error::new">>
              ELSE <<>>)

\* Debug of ToStrError.
ToStrErrorDebug == <<"ToStrError", " ", "{", " ", "_priv:", " ", "()", " ", "}">>

\* Display of Error, as derived by thiserror from the #[error] attributes.
to_string(e) ==
    CASE e.variant = "InternalError" -> INTERNAL_TEXT
      [] e.variant = "Other" -> AnyhowDisplay(e)
      [] e.variant = "Anyhow" -> ANYHOW_PREFIX \o AnyhowDebug(e)
      [] e.variant = "HeaderParse" -> HEADER_PREFIX \o ToStrErrorDebug

INTERNAL_SERVER_ERROR == 500

BAD_REQUEST == 400

OK == 200

status_code_all_bad_request(e) == BAD_REQUEST

status_code(e) ==
    IF e.variant \in {"InternalError", "Other"} THEN INTERNAL_SERVER_ERROR ELSE BAD_REQUEST

(***************************************************************************)
(* parse_backtrace over the lines of the rendered backtrace.               *)
(***************************************************************************)
\* One line of the loop body: <<frame>> when the line yields one, else <<>>.
parse_frame(line) ==
    LET t == Trim(line) IN
    IF t = <<>> \/ ~(t[1] \in Digits \cup {":"})
    THEN <<>>
    ELSE LET frame_line == Tail(t)
             at == Find(frame_line, <<" ", "at", " ">>)
         IN IF at = 0
            THEN <<>>
            ELSE <<[function |-> Trim(SubSeq(frame_line, 1, at - 1)),
                    location |-> Trim(SubSeq(frame_line, at + 3, Len(frame_line)))]>>

RECURSIVE parse_frames(_)
parse_frames(lines) ==
    IF lines = <<>> THEN <<>> ELSE parse_frame(Head(lines)) \o parse_frames(Tail(lines))

parse_backtrace(lines) ==
    LET starts == {i \in 1..Len(lines) :
                      Trim(lines[i]) # <<>> /\ Trim(lines[i])[1] = "0"}
    IN IF starts = {} THEN <<>>
       ELSE parse_frames(SubSeq(lines, SetMin(starts), Len(lines)))

\* What Backtrace::capture() renders to: disabled, or the frames with the
\* location of each on the line after its symbol.
DisabledBacktrace == << <<"disabled", " ", "backtrace">> >>

CapturedBacktrace ==
    << <<" ", " ", " ", "0", ":", " ", "std::backtrace::Backtrace::capture">>,
       <<" ", " ", " ", " ", "at", " ", "/rustc/library/std/src/backtrace.rs:331:13">>,
       <<" ", " ", " ", "1", ":", " ", "database_common_lib::http_error::error_response">>,
       <<" ", " ", " ", " ", "at", " ", "./src/http_error.rs:71:29">> >>

Backtraces(debug) == IF debug THEN {DisabledBacktrace, CapturedBacktrace} ELSE {<<>>}

(***************************************************************************)
(* HttpResponse: the status, the header map (each name with its list of    *)
(* values) and the body.                                                   *)
(***************************************************************************)
NoJson == [none |-> TRUE]

JsonBody(obj) == [kind |-> "json", json |-> obj, raw |-> <<>>]

RawBody(bytes) == [kind |-> "raw", json |-> NoJson, raw |-> bytes]

Response(status, content_type, body) ==
    [status |-> status,
     headers |-> [h \in {"content-type"} |-> <<content_type>>],
     body |-> body]

\* HttpResponse::Ok().body(..): the builder sets no Content-Type header.
BareResponse(status, body) ==
    [status |-> status, headers |-> [h \in {} |-> <<>>], body |-> body]

error_message_unsplit(e) ==
    LET message == Trim(to_string(e))
        stripped == StripPrefix(message, ANYHOW_PREFIX)
    IN IF e.variant = "Anyhow" /\ stripped # <<>> THEN stripped[1] ELSE message

\* The message of error_response: the text before the backtrace, trimmed, and
\* for Anyhow without the prefix of its #[error] attribute.
error_message(e) ==
    LET message == Trim(SplitNext(to_string(e), BACKTRACE_SEP))
        stripped == StripPrefix(message, ANYHOW_PREFIX)
    IN IF e.variant = "Anyhow" /\ stripped # <<>> THEN stripped[1] ELSE message

error_response_never_trace(e, debug, bt) ==
    Response(status_code(e), "application/json",
             JsonBody([message |-> error_message(e), status |-> status_code(e)]))

error_response(e, debug, bt) ==
    IF debug
    THEN Response(status_code(e), "application/json",
                  JsonBody([message |-> error_message(e),
                            status |-> status_code(e),
                            stacktrace |-> parse_backtrace(bt)]))
    ELSE Response(status_code(e), "application/json",
                  JsonBody([message |-> error_message(e), status |-> status_code(e)]))

ErrIdle ==
    /\ err = [variant |-> "HeaderParse", msg |-> <<>>, backtrace |-> FALSE]
    /\ captured = <<>>
    /\ statusOut = <<>>
    /\ respOut = <<>>

ErrStart ==
    /\ err \in Errors
    /\ captured \in Backtraces(debug_assertions)
    /\ statusOut = <<>>
    /\ respOut = <<>>

\* status_code(&err) is called.
CallStatusCode ==
    /\ statusOut = <<>>
    /\ statusOut' = <<status_code(err)>>
    /\ UNCHANGED <<err, captured, respOut, debug_assertions>>
    /\ UNCHANGED notErr

\* error_response(&err) is called.
CallErrorResponse ==
    /\ respOut = <<>>
    /\ respOut' = <<error_response(err, debug_assertions, captured)>>
    /\ UNCHANGED <<err, captured, statusOut, debug_assertions>>
    /\ UNCHANGED notErr

(***************************************************************************)
(* The embedded bundle.  A path is a sequence of components and a          *)
(* component is text in which each "." is a token of its own.              *)
(***************************************************************************)
IndexHtml == << <<"index", ".", "html">> >>

AppCss == << <<"assets">>, <<"app", ".", "css">> >>

LogoPng == << <<"assets">>, <<"img">>, <<"logo", ".", "png">> >>

License == << <<"assets">>, <<"LICENSE">> >>

Favicon == << <<"favicon", ".", "ico">> >>

SiteFiles ==
    (IndexHtml :> <<"<html>", " ", "app", " ", "</html>">>)
        @@ (AppCss :> <<"body", " ", "{}">>)
        @@ (LogoPng :> <<"PNG", "\n", "bytes">>)
        @@ (Favicon :> <<"ICO">>)

Bundles ==
    { SiteFiles,
      SiteFiles @@ (License :> <<"MIT", " ", "License">>),
      (AppCss :> <<"body", " ", "{}">>),
      <<>> }

\* Path equality is by components: empty and "." components do not count.
IsComponent(seg) == seg # <<>> /\ seg # <<".">>

\* Dir::get_file: <<contents>> of the file with that path, <<>> when there is
\* none (a directory is no file).
get_file(dir, path) ==
    LET p == SelectSeq(path, IsComponent)
    IN IF p \in DOMAIN dir THEN <<dir[p]>> ELSE <<>>

\* Path::extension of a path's file name: <<ext>> for Some(ext), <<>> for None
\* (no "." in the name, or only the one it starts with).
extension(path) ==
    LET p == SelectSeq(path, IsComponent)
        name == p[Len(p)]
        dots == {i \in 1..Len(name) : name[i] = "."}
    IN IF dots = {} \/ SetMax(dots) = 1
       THEN <<>>
       ELSE <<SubSeq(name, SetMax(dots) + 1, Len(name))>>

\* actix_files::file_extension_to_mime.
file_extension_to_mime(ext) ==
    CASE ext = <<"html">> -> "text/html"
      [] ext = <<"css">> -> "text/css"
      [] ext = <<"png">> -> "image/png"
      [] ext = <<"ico">> -> "image/x-icon"
      [] OTHER -> "application/octet-stream"

\* The text of a path: its components joined by "/".
RECURSIVE path_text(_)
path_text(path) ==
    IF path = <<>> THEN <<>>
    ELSE IF Len(path) = 1 THEN path[1]
    ELSE path[1] \o <<"/">> \o path_text(Tail(path))

(***************************************************************************)
(* Handlers return Ok(response), Err(error) or unwind in a panic.          *)
(***************************************************************************)
Responded(r) == [outcome |-> "response", resp |-> r]

Panicked == [outcome |-> "panic", resp |-> Response(0, "", RawBody(<<>>))]

\* actix_web::error::ErrorInternalServerError(text) rendered as a response.
InternalServerErrorText(text) ==
    Response(INTERNAL_SERVER_ERROR, "text/plain; charset=utf-8", RawBody(text))

index_plain(dir) ==
    IF get_file(dir, IndexHtml) # <<>>
    THEN Responded(Response(OK, "text/plain", RawBody(get_file(dir, IndexHtml)[1])))
    ELSE Responded(InternalServerErrorText(
             <<"Failed", " ", "to", " ", "find", " ", "index", ".", "html">>))

\* index: the default service of a production build.
index(dir) ==
    IF get_file(dir, IndexHtml) # <<>>
    THEN Responded(Response(OK, "text/html", RawBody(get_file(dir, IndexHtml)[1])))
    ELSE Responded(InternalServerErrorText(
             <<"Failed", " ", "to", " ", "find", " ", "index", ".", "html">>))

\* assets: file is the text the {file:.*} segment of the scope matched.
assets(dir, file) ==
    LET path == <<<<"assets">>>> \o file
    IN IF get_file(dir, path) # <<>>
       THEN IF extension(path) = <<>>
            THEN Panicked
            ELSE Responded(Response(OK, file_extension_to_mime(extension(path)[1]),
                                    RawBody(get_file(dir, path)[1])))
       ELSE Responded(InternalServerErrorText(
                <<"Failed", " ", "to", " ", "find", " ">> \o path_text(file)))

(***************************************************************************)
(* JSON bodies and the JsonConfig of create_http_server.                   *)
(***************************************************************************)
JSON_LIMIT == 4096

NoBody == [len |-> 0, valid |-> FALSE, json_type |-> FALSE]

BodyLengths == {0, 2, JSON_LIMIT - 1, JSON_LIMIT, JSON_LIMIT + 1, 2 * JSON_LIMIT}

\* A body: its length, whether it parses as the handler's type, and whether
\* the request declares it as application/json.
Bodies ==
    {b \in [len : BodyLengths, valid : BOOLEAN, json_type : BOOLEAN] :
        b.valid => b.len > 0}

json_extract_inclusive(body) ==
    IF ~body.json_type THEN Err(<<"Content", " ", "type", " ", "error">>)
    ELSE IF body.len >= JSON_LIMIT
         THEN Err(<<"JSON", " ", "payload", " ", "is", " ", "larger", " ", "than", " ", "allowed">>)
    ELSE IF ~body.valid THEN Err(<<"Json", " ", "deserialize", " ", "error">>)
    ELSE Ok(<<>>)

\* The Json<T> extractor under JsonConfig::default().limit(4096).
json_extract(body) ==
    IF ~body.json_type THEN Err(<<"Content", " ", "type", " ", "error">>)
    ELSE IF body.len > JSON_LIMIT
         THEN Err(<<"JSON", " ", "payload", " ", "is", " ", "larger", " ", "than", " ", "allowed">>)
    ELSE IF ~body.valid THEN Err(<<"Json", " ", "deserialize", " ", "error">>)
    ELSE Ok(<<>>)

\* The error_handler of the JsonConfig: the response carried by the error.
json_error_handler(message) ==
    Response(BAD_REQUEST, "application/json", JsonBody([error |-> message]))

(***************************************************************************)
(* The routes the factory of the example server registers in its scope     *)
(* "/api".  A path is a sequence of segments; the segment {message}        *)
(* matches one non-empty segment of the request.                           *)
(***************************************************************************)
MessageParam == <<"{message}">>

CallerRoutes ==
    { [method |-> "GET", path |-> << <<"api">>, <<"hello">> >>, handler |-> "hello"],
      [method |-> "GET", path |-> << <<"api">>, <<"echo">>, MessageParam >>, handler |-> "echo"],
      [method |-> "GET", path |-> << <<"api">>, <<"health">> >>, handler |-> "health_check"],
      [method |-> "GET", path |-> << <<"api">>, <<"error">> >>, handler |-> "error"] }

(***************************************************************************)
(* The factory is an argument of create_http_server.  Besides the example  *)
(* server's, the model takes a factory that also registers a route whose   *)
(* handler takes a Json<T> body and a route whose handler sets CORS        *)
(* headers of its own; neither handler is code of the repository.          *)
(***************************************************************************)
JsonRoute ==
    [method |-> "POST", path |-> << <<"api">>, <<"items">> >>, handler |-> "create_item"]

CorsRoute ==
    [method |-> "GET", path |-> << <<"api">>, <<"cors">> >>, handler |-> "own_cors"]

Factories == { CallerRoutes, CallerRoutes \cup {JsonRoute, CorsRoute} }

\* Requests with GET only: their paths are those of GET routes.
GetPaths ==
    { << <<"api">>, <<"hello">> >>,
      << <<"api">>, <<"echo">>, <<"hi">> >>,
      << <<"api">>, <<"echo">>, <<"index", ".", "html">> >>,
      << <<"api">>, <<"health">> >>,
      << <<"api">>, <<"error">> >>,
      << <<"api">>, <<"cors">> >> }

OtherPaths ==
    { <<>>,
      << <<"dashboard">> >>,
      << <<"api">>, <<"missing">> >>,
      << <<"api">>, <<"echo">> >>,
      << <<"api">>, <<"echo">>, <<>> >>,
      << <<"api">>, <<"echo">>, <<"hi">>, <<"there">> >>,
      << <<"assets">> >>,
      << <<"assets">>, <<>> >>,
      << <<"assets">>, <<"app", ".", "css">> >>,
      << <<"assets">>, <<>>, <<"app", ".", "css">> >>,
      << <<"assets">>, <<"img">>, <<"logo", ".", "png">> >>,
      << <<"assets">>, <<"img">> >>,
      << <<"assets">>, <<"LICENSE">> >>,
      << <<"assets">>, <<"nope", ".", "js">> >>,
      << <<"favicon", ".", "ico">> >> }

\* Requests: GET to the paths of the GET routes, POST with a body to the path
\* of the Json<T> route, and both methods to the paths no route has.
Requests ==
    {[method |-> "GET", path |-> p, body |-> NoBody] : p \in GetPaths}
    \cup {[method |-> "POST", path |-> JsonRoute.path, body |-> b] : b \in Bodies}
    \cup {[method |-> m, path |-> p, body |-> NoBody] : m \in {"GET", "POST"}, p \in OtherPaths}

\* The scope "/assets/{file:.*}": the path is /assets/ followed by anything.
UnderAssets(path) == Len(path) >= 2 /\ path[1] = <<"assets">>

\* A resource path matches the whole request path, segment by segment.
PathMatches(pattern, path) ==
    /\ Len(pattern) = Len(path)
    /\ \A i \in 1..Len(pattern) :
          IF pattern[i] = MessageParam THEN path[i] # <<>> ELSE pattern[i] = path[i]

MatchedRoutes(req) ==
    {r \in routes : r.method = req.method /\ PathMatches(r.path, req.path)}

\* The service of the App that takes the request: the caller's services are
\* registered first, then (production) the assets scope, whose one resource
\* is guarded by GET, and what nothing matches goes to the default service.
service_of(req, debug) ==
    IF MatchedRoutes(req) # {} THEN "caller"
    ELSE IF debug THEN "vite"
    ELSE IF UnderAssets(req.path) /\ req.method = "GET" THEN "assets"
    ELSE "index"

(***************************************************************************)
(* The middleware of create_http_server.                                   *)
(***************************************************************************)
\* HeaderMap::insert: the name keeps only the new value.
insert(headers, name, value) ==
    [h \in DOMAIN headers \cup {name} |-> IF h = name THEN <<value>> ELSE headers[h]]

\* HeaderMap::append: the new value is added to those the name has.
append(headers, name, value) ==
    [h \in DOMAIN headers \cup {name} |->
        IF h = name
        THEN (IF name \in DOMAIN headers THEN headers[name] ELSE <<>>) \o <<value>>
        ELSE headers[h]]

cors_append(res) ==
    [res EXCEPT !.headers =
        append(append(res.headers, "access-control-allow-headers", "*"),
               "access-control-allow-origin", "*")]

\* The wrap_fn closure, applied to the response of the inner service.
cors(res) ==
    [res EXCEPT !.headers =
        insert(insert(res.headers, "access-control-allow-headers", "*"),
               "access-control-allow-origin", "*")]

\* What the client gets: the outcome of the service through the middleware.
\* A panic unwinds through it and the connection ends without a response.
Exchange(req, service, handler, ran, out) ==
    [req |-> req, service |-> service, handler |-> handler, handler_ran |-> ran,
     sent |-> out.outcome = "response",
     resp |-> IF out.outcome = "response" THEN cors(out.resp) ELSE out.resp]

HttpIdle ==
    /\ wwwroot = <<>>
    /\ routes = {}
    /\ request = <<>>
    /\ exchange = <<>>

HttpStart ==
    /\ wwwroot \in Bundles
    /\ routes \in Factories
    /\ request = <<>>
    /\ exchange = <<>>

\* A request arrives.
Receive(req) ==
    /\ request = <<>>
    /\ request' = <<req>>
    /\ UNCHANGED <<wwwroot, routes, exchange, debug_assertions>>
    /\ UNCHANGED notHttp

Serve(x) ==
    /\ exchange' = <<x>>
    /\ request' = <<>>
    /\ UNCHANGED <<wwwroot, routes, debug_assertions>>
    /\ UNCHANGED notHttp

\* hello: HttpResponse::Ok().body("Hello, world!").
hello == BareResponse(OK, RawBody(<<"Hello,", " ", "world!">>))

\* echo: HttpResponse::Ok().body(format!("You said: {}", info)), info being
\* the segment {message} matched.
echo(info) == BareResponse(OK, RawBody(<<"You", " ", "said:", " ">> \o info))

\* health_check: HttpResponse::Ok().json(json!({"status": "ok"})).
health_check == Response(OK, "application/json", JsonBody([status |-> "ok"]))

\* The handlers of the example server that return a response.
ServeCallerOk ==
    /\ request # <<>>
    /\ service_of(request[1], debug_assertions) = "caller"
    /\ \E r \in MatchedRoutes(request[1]) :
        /\ r.handler \in {"hello", "echo", "health_check"}
        /\ LET res ==
                CASE r.handler = "hello" -> hello
                  [] r.handler = "echo" -> echo(request[1].path[3])
                  [] r.handler = "health_check" -> health_check
           IN Serve(Exchange(request[1], "caller", r.handler, TRUE, Responded(res)))

\* A caller's handler that answers with CORS headers of its own.
ServeOwnCors ==
    /\ request # <<>>
    /\ service_of(request[1], debug_assertions) = "caller"
    /\ \E r \in MatchedRoutes(request[1]) :
        /\ r.handler = "own_cors"
        /\ LET res ==
                [BareResponse(OK, RawBody(<<"ok">>)) EXCEPT !.headers =
                    insert(insert(@, "access-control-allow-origin", "https://example.com"),
                           "access-control-allow-headers", "content-type")]
           IN Serve(Exchange(request[1], "caller", r.handler, TRUE, Responded(res)))

\* A handler returning Err(e) for an Error of the library: error_response(e).
ServeCallerError ==
    /\ request # <<>>
    /\ service_of(request[1], debug_assertions) = "caller"
    /\ \E r \in MatchedRoutes(request[1]) :
        /\ r.handler = "error"
        /\ \E e \in Errors, bt \in Backtraces(debug_assertions) :
            Serve(Exchange(request[1], "caller", r.handler, TRUE,
                           Responded(error_response(e, debug_assertions, bt))))

\* A handler taking Json<T>: the extractor runs first, and its error becomes
\* the response of the error_handler without the handler being called.
ServeJson ==
    /\ request # <<>>
    /\ service_of(request[1], debug_assertions) = "caller"
    /\ \E r \in MatchedRoutes(request[1]) :
        /\ r.handler = "create_item"
        /\ LET parsed == json_extract(request[1].body)
           IN IF parsed.ok
              THEN Serve(Exchange(request[1], "caller", r.handler, TRUE,
                         Responded(Response(OK, "application/json",
                                            JsonBody([created |-> TRUE])))))
              ELSE Serve(Exchange(request[1], "caller", r.handler, FALSE,
                         Responded(json_error_handler(parsed.val))))

\* GET /assets/<file> in a production build.
ServeAssets ==
    /\ request # <<>>
    /\ service_of(request[1], debug_assertions) = "assets"
    /\ Serve(Exchange(request[1], "assets", "assets", TRUE,
                      assets(wwwroot, Tail(request[1].path))))

\* The default service of a production build.
ServeIndex ==
    /\ request # <<>>
    /\ service_of(request[1], debug_assertions) = "index"
    /\ Serve(Exchange(request[1], "index", "index", TRUE, index(wwwroot)))

\* What the frontend dev server may answer through the proxy.
ViteResponses ==
    { Response(OK, "text/html", RawBody(<<"<html>", " ", "vite", " ", "</html>">>)),
      Response(404, "text/plain", RawBody(<<"Not", " ", "Found">>)) }

\* A development build: configure_vite hands the request to the proxy of the
\* frontend dev server.
ServeVite ==
    /\ request # <<>>
    /\ service_of(request[1], debug_assertions) = "vite"
    /\ \E upstream \in ViteResponses :
        Serve(Exchange(request[1], "vite", "vite", TRUE, Responded(upstream)))

(***************************************************************************)
(* DatabaseConnectionData::get.  A JSON text is the object it denotes (key *)
(* -> value) or text that is no JSON; a directory holds dev-server.json or *)
(* does not.                                                               *)
(***************************************************************************)
Directories == {"/ws", "/ws/member"}

NotJson == [is_json |-> FALSE, obj |-> [none |-> TRUE]]

\* serde_json::to_string of a DatabaseConnectionData: one key per field.
to_json(data) ==
    [is_json |-> TRUE,
     obj |-> [host |-> data.host, user |-> data.user, password |-> data.password,
              filemaker |-> [username |-> data.filemaker.username,
                             password |-> data.filemaker.password],
              hash |-> data.hash]]

\* serde_json::from_str::<DatabaseConnectionData>: every field is required.
from_json(text) ==
    IF ~text.is_json THEN Err("expected value")
    ELSE IF ~({"host", "user", "password", "filemaker", "hash"} \subseteq DOMAIN text.obj)
         THEN Err("missing field")
    ELSE Ok([host |-> text.obj.host, user |-> text.obj.user,
             password |-> text.obj.password,
             filemaker |-> [username |-> text.obj.filemaker.username,
                            password |-> text.obj.filemaker.password],
             hash |-> text.obj.hash])

\* What a dev-server.json may hold when the process starts.
FileStates ==
    { <<>>,
      <<to_json(DefaultData)>>,
      <<to_json(CHOOSE c \in Configs : c # DefaultData)>>,
      <<NotJson>>,
      <<[is_json |-> TRUE, obj |-> [host |-> "db.local"]]>> }

\* Path::new(&manifest_dir).join("dev-server.json"): the directory it lies in.
\* An unset CARGO_MANIFEST_DIR gives ".", the working directory.
config_dir(manifest, dir) == IF manifest = <<>> THEN dir ELSE manifest[1]

\* The development branch of get: the files afterwards, the Result, and
\* whether config_path existed.  The relative name "dev-server.json" given
\* to std::fs::write lies in the working directory, which is writable.
get_dev(fs, dir, manifest) ==
    LET config_path == config_dir(manifest, dir)
    IN IF fs[config_path] = <<>>
       THEN [files |-> [fs EXCEPT ![dir] = <<to_json(DefaultData)>>],
             res |-> Err("Configuration file not found"),
             existed |-> FALSE]
       ELSE [files |-> fs, res |-> from_json(fs[config_path][1]), existed |-> TRUE]

\* What the remote endpoint may answer: <<>> when the request fails.
RemoteAnswers == {<<>>, <<to_json(CHOOSE c \in Configs : c # DefaultData)>>, <<NotJson>>}

\* The production branch of get.
get_remote(answer) ==
    IF answer = <<>> THEN Err("error sending request") ELSE from_json(answer[1])

GetEntry(res, existed) ==
    [ok |-> res.ok, cfg |-> IF res.ok THEN <<res.val>> ELSE <<>>, existed |-> existed]

CfgIdle ==
    /\ cwd = "/ws"
    /\ manifest_env = <<>>
    /\ files = [d \in Directories |-> <<>>]
    /\ getLog = <<>>

CfgStart ==
    /\ cwd \in Directories
    /\ manifest_env \in {<<>>} \cup {<<d>> : d \in Directories}
    /\ files \in [Directories -> FileStates]
    /\ getLog = <<>>

\* DatabaseConnectionData::get() in a development build.
GetDev ==
    /\ debug_assertions
    /\ Len(getLog) < MaxGets
    /\ LET r == get_dev(files, cwd, manifest_env) IN
        /\ files' = r.files
        /\ getLog' = Append(getLog, GetEntry(r.res, r.existed))
    /\ UNCHANGED <<cwd, manifest_env, debug_assertions>>
    /\ UNCHANGED notCfg

\* DatabaseConnectionData::get() in a production build.
GetRemote ==
    /\ ~debug_assertions
    /\ Len(getLog) < MaxGets
    /\ \E answer \in RemoteAnswers :
        getLog' = Append(getLog, GetEntry(get_remote(answer), TRUE))
    /\ UNCHANGED <<cwd, manifest_env, files, debug_assertions>>
    /\ UNCHANGED notCfg

(***************************************************************************)
(* The From impls of Error.  A source is its type, the text its Display    *)
(* gives, whether a backtrace is captured when it is wrapped, and for an   *)
(* HttpResponse its status.                                                *)
(***************************************************************************)
SourceTexts == {<<"boom">>, <<" ", "not", " ", "found", "\n">>}

Sources ==
    [type : {"anyhow::Error"}, msg : Messages, backtrace : BOOLEAN, status : {0}]
    \cup [type : {"std::io::Error", "sqlx::Error", "HttpError"},
          msg : SourceTexts, backtrace : BOOLEAN, status : {0}]
    \cup [type : {"HttpResponse"}, msg : {<<>>}, backtrace : BOOLEAN,
          status : {200, 404, 500, 599}]
    \cup [type : {"ToStrError"}, msg : {<<>>}, backtrace : {FALSE}, status : {0}]

\* StatusCode::canonical_reason().unwrap_or("").
canonical_reason(status) ==
    CASE status = 200 -> <<"OK">>
      [] status = 404 -> <<"Not", " ", "Found">>
      [] status = 500 -> <<"Internal", " ", "Server", " ", "Error">>
      [] OTHER -> <<>>

from_wrapped_as_other(src) ==
    CASE src.type = "anyhow::Error" ->
            [variant |-> "Anyhow", msg |-> src.msg, backtrace |-> src.backtrace]
      [] src.type = "ToStrError" ->
            [variant |-> "HeaderParse", msg |-> <<>>, backtrace |-> FALSE]
      [] src.type \in {"std::io::Error", "sqlx::Error", "HttpError"} ->
            [variant |-> "Other", msg |-> src.msg, backtrace |-> src.backtrace]
      [] src.type = "HttpResponse" ->
            [variant |-> "Anyhow",
             msg |-> <<"HTTP", " ", "response", " ", "error:", " ">>
                         \o canonical_reason(src.status),
             backtrace |-> src.backtrace]

\* Error::from for each type that has an impl.
from(src) ==
    CASE src.type = "anyhow::Error" ->
            [variant |-> "Anyhow", msg |-> src.msg, backtrace |-> src.backtrace]
      [] src.type = "ToStrError" ->
            [variant |-> "HeaderParse", msg |-> <<>>, backtrace |-> FALSE]
      [] src.type \in {"std::io::Error", "sqlx::Error", "HttpError"} ->
            [variant |-> "Anyhow", msg |-> src.msg, backtrace |-> src.backtrace]
      [] src.type = "HttpResponse" ->
            [variant |-> "Anyhow",
             msg |-> <<"HTTP", " ", "response", " ", "error:", " ">>
                         \o canonical_reason(src.status),
             backtrace |-> src.backtrace]

FromIdle ==
    /\ source = [type |-> "ToStrError", msg |-> <<>>, backtrace |-> FALSE, status |-> 0]
    /\ converted = FALSE

FromStart ==
    /\ source \in Sources
    /\ converted = FALSE

\* Error::from(source), as `?` and .into() call it.
Convert ==
    /\ ~converted
    /\ err' = from(source)
    /\ converted' = TRUE
    /\ UNCHANGED <<source, captured, statusOut, respOut, debug_assertions>>
    /\ UNCHANGED <<dbVars, httpVars, cfgVars>>

\* status_code on the converted value.
ConvertedStatusCode == converted /\ CallStatusCode

\* error_response on the converted value.
ConvertedErrorResponse == converted /\ CallErrorResponse

InitDb == DbStart /\ debug_assertions = FALSE /\ ErrIdle /\ HttpIdle /\ CfgIdle /\ FromIdle

InitErr == DbStart /\ debug_assertions \in BOOLEAN /\ ErrStart /\ HttpIdle /\ CfgIdle /\ FromIdle

InitHttp == DbStart /\ debug_assertions \in BOOLEAN /\ ErrIdle /\ HttpStart /\ CfgIdle /\ FromIdle

InitCfg == DbStart /\ debug_assertions \in BOOLEAN /\ ErrIdle /\ HttpIdle /\ CfgStart /\ FromIdle

NextCfg ==
    \/ GetDev
    \/ GetRemote

SpecCfg == InitCfg /\ [][NextCfg]_vars

InitFrom ==
    /\ DbStart /\ debug_assertions \in BOOLEAN /\ HttpIdle /\ CfgIdle /\ FromStart
    /\ err = [variant |-> "HeaderParse", msg |-> <<>>, backtrace |-> FALSE]
    /\ captured \in Backtraces(debug_assertions)
    /\ statusOut = <<>>
    /\ respOut = <<>>

NextFrom ==
    \/ Convert
    \/ ConvertedStatusCode
    \/ ConvertedErrorResponse

SpecFrom == InitFrom /\ [][NextFrom]_vars

NextErr ==
    \/ CallStatusCode
    \/ CallErrorResponse

NextHttp ==
    \/ \E req \in Requests : Receive(req)
    \/ ServeCallerOk
    \/ ServeOwnCors
    \/ ServeCallerError
    \/ ServeJson
    \/ ServeAssets
    \/ ServeIndex
    \/ ServeVite

SpecErr == InitErr /\ [][NextErr]_vars

SpecHttp == InitHttp /\ [][NextHttp]_vars

NextDb ==
    \/ \E t \in Threads, db \in Names : SetInvoke(t, db)
    \/ \E t \in Threads : SetApply(t)
    \/ \E t \in Threads : GetBegin(t)
    \/ \E t \in Threads : GetFinish(t)
    \/ \E t \in Threads, data \in Configs : CreatePoolBegin(t, data)
    \/ \E t \in Threads : CreatePoolConnect(t)
    \/ \E t \in Threads, connected \in BOOLEAN : CreatePoolFinish(t, connected)

SpecDb == InitDb /\ [][NextDb]_vars

(***************************************************************************)
(* Claims about the database name and the pool factory (SpecDb).           *)
(***************************************************************************)
Returned(op) == {i \in 1..Len(returned) : returned[i].op = op}

\* The set_database_name calls that returned Ok before position i of the log.
OkSetsBefore(i) == {j \in Returned("set") : j < i /\ returned[j].ok}

\* C1: over every interleaving of set_database_name calls by the threads, the
\* first call applied returns Ok and every other call returns an error, so
\* exactly one call succeeds and a second call after a successful one fails.
C1_ExactlyOneSetSucceeds ==
    \A i \in Returned("set") :
        returned[i].ok <=> (\A j \in Returned("set") : i <= j)

\* Two threads have both called set_database_name, with different names.
C1_Witness ==
    \E i, j \in Returned("set") :
        /\ i < j
        /\ returned[i].thread # returned[j].thread
        /\ returned[i].db # returned[j].db
        /\ returned[i].ok
        /\ ~returned[j].ok

C2_ReadsSeeTheOneSet ==
    /\ \A i \in Returned("get") :
          IF OkSetsBefore(i) = {}
          THEN ~returned[i].ok
          ELSE /\ returned[i].ok
               /\ \A j \in OkSetsBefore(i) : returned[i].val = returned[j].db
    /\ \A j \in Returned("set") : returned[j].ok => DATABASE_NAME = <<returned[j].db>>
    /\ (Returned("set") = {}) => DATABASE_NAME = <<>>

\* C2: get_database_name returns an error while no set_database_name call has
\* succeeded and otherwise exactly the string of the one successful call, for
\* every caller and however many failing set calls with other values follow;
\* the stored name never changes once set.
C2_GetReturnsStoredName ==
    /\ []C2_ReadsSeeTheOneSet
    /\ [][DATABASE_NAME # <<>> => DATABASE_NAME' = DATABASE_NAME]_vars

\* After a successful set and a failing set with another value, a thread other
\* than the setter read the name of the successful set.
C2_Witness ==
    \E s, f, g \in 1..Len(returned) :
        /\ s < f /\ f < g
        /\ returned[s].op = "set" /\ returned[s].ok
        /\ returned[f].op = "set" /\ ~returned[f].ok /\ returned[f].db # returned[s].db
        /\ returned[g].op = "get" /\ returned[g].ok
        /\ returned[g].thread # returned[s].thread
        /\ returned[g].val = returned[s].db

C3_PoolUsesTheName ==
    /\ \A i \in Returned("create_pool") :
          IF OkSetsBefore(i) = {}
          THEN ~returned[i].ok /\ returned[i].nattempts = 0
          ELSE returned[i].nattempts = 1
    /\ DATABASE_NAME = <<>> => attempts = <<>>
    /\ \A k \in 1..Len(attempts) :
          /\ DATABASE_NAME # <<>>
          /\ attempts[k].url =
                 "mysql://" \o attempts[k].data.user \o ":" \o attempts[k].data.password
                     \o "@" \o attempts[k].data.host \o "/" \o DATABASE_NAME[1]
    /\ Len(attempts) =
           Cardinality({i \in Returned("create_pool") : returned[i].nattempts = 1})
               + Cardinality({t \in Threads : pc[t] = "pool_connecting"})

\* C3: create_pool returns an error without attempting a connection while the
\* database name is unset; once it is set to db the only connection attempted
\* uses mysql://{user}:{password}@{host}/{db} built from the given
\* configuration, and no step of create_pool changes the stored name.
C3_CreatePool ==
    /\ []C3_PoolUsesTheName
    /\ [][(\E t \in Threads : CreatePoolStep(t)) => DATABASE_NAME' = DATABASE_NAME]_vars

\* create_pool failed before the name was set, and a later create_pool with a
\* non-empty configuration connected after it was set.
C3_Witness ==
    \E e, s, p \in 1..Len(returned) :
        /\ e < s /\ s < p
        /\ returned[e].op = "create_pool" /\ ~returned[e].ok /\ returned[e].nattempts = 0
        /\ returned[s].op = "set" /\ returned[s].ok
        /\ returned[p].op = "create_pool" /\ returned[p].ok
        /\ returned[p].data # DefaultData
        /\ attempts # <<>>

(***************************************************************************)
(* Claims about the Error enum (SpecErr).                                  *)
(***************************************************************************)
\* C4: status_code is 500 for InternalError and Other and 400 for Anyhow and
\* HeaderParse, and the HTTP status of error_response is that same code.
C4_StatusCodes ==
    /\ statusOut # <<>> =>
          statusOut[1] = (IF err.variant \in {"InternalError", "Other"} THEN 500 ELSE 400)
    /\ respOut # <<>> =>
          respOut[1].status = (IF err.variant \in {"InternalError", "Other"} THEN 500 ELSE 400)
    /\ (statusOut # <<>> /\ respOut # <<>>) => respOut[1].status = statusOut[1]

\* Both functions have been called on an Other value.
C4_Witness ==
    /\ err.variant = "Other"
    /\ statusOut = <<500>>
    /\ respOut # <<>>
    /\ respOut[1].status = 500

\* C5: in both build modes the JSON body of error_response has the keys
\* message and status, status is the numeric HTTP status of the response, and
\* the key stacktrace is present exactly in a development build.
C5_ErrorBody ==
    respOut # <<>> =>
        /\ respOut[1].body.kind = "json"
        /\ {"message", "status"} \subseteq DOMAIN respOut[1].body.json
        /\ respOut[1].body.json.status = respOut[1].status
        /\ ("stacktrace" \in DOMAIN respOut[1].body.json) <=> debug_assertions

\* error_response has rendered an Anyhow value in a development build.
C5_Witness ==
    /\ debug_assertions
    /\ err.variant = "Anyhow"
    /\ respOut # <<>>
    /\ DOMAIN respOut[1].body.json = {"message", "status", "stacktrace"}

(***************************************************************************)
(* Claims about the server built by create_http_server (SpecHttp).         *)
(***************************************************************************)
ContentType(resp) ==
    IF "content-type" \in DOMAIN resp.headers THEN resp.headers["content-type"] ELSE <<>>

\* The body carries a backtrace: a stacktrace key, or text after the
\* "Stack backtrace:" heading of anyhow's Debug rendering.
HasStackDump(resp) ==
    IF resp.body.kind = "json"
    THEN \/ "stacktrace" \in DOMAIN resp.body.json
         \/ /\ "message" \in DOMAIN resp.body.json
            /\ Find(resp.body.json.message, BACKTRACE_SEP) # 0
    ELSE Find(resp.body.raw, BACKTRACE_SEP) # 0

\* An error response of a handler, of the assets or index service, or of the
\* JSON extractor.
IsErrorExchange ==
    /\ exchange # <<>>
    /\ exchange[1].sent
    /\ exchange[1].service \in {"caller", "assets", "index"}
    /\ exchange[1].resp.status >= 400

\* C6 as stated: every error response (handler Error, missing asset, missing
\* index.html, rejected JSON body) is a JSON error envelope, and in
\* production none contains a stack dump.
C6_AllErrorsAreJson ==
    IsErrorExchange =>
        /\ exchange[1].resp.body.kind = "json"
        /\ ContentType(exchange[1].resp) = <<"application/json">>
        /\ ~debug_assertions => ~HasStackDump(exchange[1].resp)

\* C6 as amended: an Error returned by a handler and a rejected JSON body are
\* answered with a JSON body ({message, status} and {error}); a missing asset
\* and a missing index.html are answered with status 500 and the plain text
\* "Failed to find ..."; in production none of them contains a stack dump.
C6_ErrorBodies ==
    IsErrorExchange =>
        /\ exchange[1].handler = "error" =>
              /\ exchange[1].resp.body.kind = "json"
              /\ ContentType(exchange[1].resp) = <<"application/json">>
              /\ {"message", "status"} \subseteq DOMAIN exchange[1].resp.body.json
        /\ exchange[1].handler = "create_item" =>
              /\ exchange[1].resp.body.kind = "json"
              /\ ContentType(exchange[1].resp) = <<"application/json">>
              /\ DOMAIN exchange[1].resp.body.json = {"error"}
        /\ exchange[1].service \in {"assets", "index"} =>
              /\ exchange[1].resp.status = 500
              /\ exchange[1].resp.body.kind = "raw"
              /\ ContentType(exchange[1].resp) = <<"text/plain; charset=utf-8">>
              /\ SubSeq(exchange[1].resp.body.raw, 1, 5) = <<"Failed", " ", "to", " ", "find">>
        /\ ~debug_assertions => ~HasStackDump(exchange[1].resp)

\* A production server answered a request for an asset it does not have.
C6_Witness ==
    /\ IsErrorExchange
    /\ ~debug_assertions
    /\ exchange[1].service = "assets"
    /\ exchange[1].resp.body.kind = "raw"

\* C7: in a production build GET /assets/<path> returns, for every file under
\* assets/ whatever its name or depth, status 200 with the Content-Type of the
\* file's extension and the file's exact bytes, and for every path naming no
\* file under assets/ status 500 and no file content.
C7_AssetsServed ==
    (/\ exchange # <<>>
     /\ ~debug_assertions
     /\ exchange[1].req.method = "GET"
     /\ UnderAssets(exchange[1].req.path)) =>
        IF get_file(wwwroot, exchange[1].req.path) # <<>>
        THEN /\ exchange[1].sent
             /\ exchange[1].resp.status = 200
             /\ exchange[1].resp.body.raw = get_file(wwwroot, exchange[1].req.path)[1]
             /\ extension(exchange[1].req.path) # <<>> =>
                   ContentType(exchange[1].resp) =
                       <<file_extension_to_mime(extension(exchange[1].req.path)[1])>>
        ELSE /\ exchange[1].sent
             /\ exchange[1].resp.status = 500
             /\ \A f \in DOMAIN wwwroot : exchange[1].resp.body.raw # wwwroot[f]

\* The request is one for the default service: no route of the caller and
\* not under /assets/.
IsUnmapped(req) == MatchedRoutes(req) = {} /\ ~UnderAssets(req.path)

C8_CallerAndDevRouting ==
    /\ MatchedRoutes(exchange[1].req) # {} =>
          /\ exchange[1].service = "caller"
          /\ exchange[1].handler_ran \/ exchange[1].handler = "create_item"
          /\ \E r \in MatchedRoutes(exchange[1].req) : exchange[1].handler = r.handler
          /\ exchange[1].handler = "health_check" =>
                /\ exchange[1].resp.status = 200
                /\ exchange[1].resp.body.json = [status |-> "ok"]
    /\ (debug_assertions /\ MatchedRoutes(exchange[1].req) = {}) =>
          exchange[1].service = "vite"

\* C8 as stated: in production / and every path matching neither a route of
\* the caller nor /assets/... returns 200 with the bytes of index.html as
\* text/html; a caller's route is answered by the caller's handler; in a
\* development build the request goes to the frontend dev-server proxy.
C8_IndexFallback ==
    exchange # <<>> =>
        /\ (~debug_assertions /\ IsUnmapped(exchange[1].req)) =>
              /\ exchange[1].sent
              /\ exchange[1].resp.status = 200
              /\ ContentType(exchange[1].resp) = <<"text/html">>
              /\ IndexHtml \in DOMAIN wwwroot
              /\ exchange[1].resp.body.raw = wwwroot[IndexHtml]
        /\ C8_CallerAndDevRouting

\* C8 as amended: the same, for a bundle that holds index.html; for a bundle
\* without it the unmapped request returns status 500.
C8_IndexFallbackWhenPresent ==
    exchange # <<>> =>
        /\ (~debug_assertions /\ IsUnmapped(exchange[1].req)) =>
              IF IndexHtml \in DOMAIN wwwroot
              THEN /\ exchange[1].sent
                   /\ exchange[1].resp.status = 200
                   /\ ContentType(exchange[1].resp) = <<"text/html">>
                   /\ exchange[1].resp.body.raw = wwwroot[IndexHtml]
              ELSE /\ exchange[1].sent
                   /\ exchange[1].resp.status = 500
        /\ C8_CallerAndDevRouting

\* A production server with index.html answered an unmapped path with it.
C8_Witness ==
    /\ exchange # <<>>
    /\ ~debug_assertions
    /\ exchange[1].req.path = << <<"dashboard">> >>
    /\ IndexHtml \in DOMAIN wwwroot
    /\ exchange[1].service = "index"
    /\ exchange[1].resp.status = 200

\* C9: every response the server sends (a success, a handler error, a JSON
\* rejection, an asset or index 500, a response whose handler set CORS values
\* of its own) carries Access-Control-Allow-Headers: * and
\* Access-Control-Allow-Origin: *.
C9_CorsHeaders ==
    (exchange # <<>> /\ exchange[1].sent) =>
        /\ "access-control-allow-headers" \in DOMAIN exchange[1].resp.headers
        /\ "access-control-allow-origin" \in DOMAIN exchange[1].resp.headers
        /\ exchange[1].resp.headers["access-control-allow-headers"] = <<"*">>
        /\ exchange[1].resp.headers["access-control-allow-origin"] = <<"*">>

\* The handler that sets CORS headers of its own has answered.
C9_Witness ==
    /\ exchange # <<>>
    /\ exchange[1].sent
    /\ exchange[1].handler = "own_cors"
    /\ exchange[1].resp.headers["access-control-allow-origin"] = <<"*">>

\* C10: a JSON body longer than 4096 bytes, or not valid JSON, yields status
\* 400 with the body {"error": <parser message>} and the handler is not run;
\* a valid JSON body of at most 4096 bytes is not rejected by the limit.
C10_JsonLimit ==
    (exchange # <<>> /\ exchange[1].handler = "create_item") =>
        /\ (exchange[1].req.body.len > 4096 \/ ~exchange[1].req.body.valid) =>
              /\ exchange[1].sent
              /\ exchange[1].resp.status = 400
              /\ exchange[1].resp.body.kind = "json"
              /\ DOMAIN exchange[1].resp.body.json = {"error"}
              /\ exchange[1].resp.body.json.error # <<>>
              /\ ~exchange[1].handler_ran
        /\ (exchange[1].req.body.len <= 4096 /\ exchange[1].req.body.valid
                /\ exchange[1].req.body.json_type) =>
              /\ exchange[1].handler_ran
              /\ exchange[1].resp.status = 200

\* A valid JSON body of 4097 bytes has been rejected.
C10_Witness ==
    /\ exchange # <<>>
    /\ exchange[1].handler = "create_item"
    /\ exchange[1].req.body.len = 4097
    /\ exchange[1].req.body.valid
    /\ exchange[1].req.body.json_type
    /\ exchange[1].resp.status = 400
    /\ ~exchange[1].handler_ran

(***************************************************************************)
(* Claims about DatabaseConnectionData::get (SpecCfg).                     *)
(***************************************************************************)
\* C11: in a development build, when the configuration file is absent, get
\* creates a default file and returns an error, and it fails only once: the
\* next call finds the file and returns Ok with the default configuration,
\* for every manifest directory and working directory.
C11_FailsOnce ==
    debug_assertions =>
        \A i \in 1..Len(getLog) :
            ~getLog[i].existed =>
                /\ ~getLog[i].ok
                /\ files[cwd] # <<>>
                /\ (i + 1 <= Len(getLog)) =>
                      /\ getLog[i + 1].ok
                      /\ getLog[i + 1].cfg = <<DefaultData>>

(***************************************************************************)
(* Claims about the From conversions of Error (SpecFrom).                  *)
(***************************************************************************)
\* C12: every Error obtained through a From conversion (from anyhow::Error,
\* std::io::Error, sqlx::Error, HttpError, HttpResponse or ToStrError) is an
\* Anyhow or HeaderParse value and produces status 400; no conversion yields
\* a 500.
C12_ConversionsAreBadRequest ==
    converted =>
        /\ err.variant \in {"Anyhow", "HeaderParse"}
        /\ statusOut # <<>> => statusOut[1] = 400
        /\ respOut # <<>> =>
              /\ respOut[1].status = 400
              /\ respOut[1].body.json.status = 400

\* An HttpResponse with status 500 was converted and rendered with status 400.
C12_Witness ==
    /\ converted
    /\ source.type = "HttpResponse"
    /\ source.status = 500
    /\ statusOut = <<400>>
    /\ respOut # <<>>
    /\ respOut[1].status = 400

====
